---- MODULE Spec2Model ----
(***************************************************************************)
(* A model of the Rust extension module of mabel-dev/opteryx:              *)
(*   - regex_replace_rust and convert_python_to_rust_backrefs (lib.rs),    *)
(*   - parse_sql (lib.rs) with the OpteryxDialect infix hook               *)
(*     (opteryx_dialect.rs),                                               *)
(*   - extract_temporal_for_clauses (temporal_parser.rs),                  *)
(*   - restore_ast (sqloxide.rs).                                          *)
(*                                                                         *)
(* Text is a sequence of Unicode code points, a byte string a sequence of  *)
(* numbers 0..255; a Python object is a record [kind, v] with kind "None", *)
(* "str" or "bytes".  The regex crate is modelled on the pattern language  *)
(* the pools use: literal characters and capture groups.                   *)
(***************************************************************************)
EXTENDS Integers, Sequences, FiniteSets, TLC

VARIABLES
    pc,               \* position of the call in progress
    data,             \* regex_replace_rust: the items
    pattern,          \* regex_replace_rust: the pattern object
    replacement,      \* regex_replace_rust: the replacement object
    rust_replacement, \* the translated template (code points)
    re,               \* the compiled regex
    idx,              \* number of items the loop has consumed
    result,           \* the Vec being built
    ret,              \* what the call returned to its caller
    compiles,         \* how many times Regex::new ran in this call
    examined,         \* how many items the loop has looked at
    sql,              \* parse_sql / parse_infix: the tokens
    dialect,          \* parse_sql: the dialect argument
    left,             \* parse_infix: the expression passed to the hook
    precedence,       \* parse_infix: the precedence passed to the hook
    parsed,           \* outcome of parse_sql / of the hook
    text,             \* extract_temporal_for_clauses: the input
    extraction,       \* extract_temporal_for_clauses: the result
    tree,             \* restore_ast: the list of structured values
    statements,       \* restore_ast: the statements deserialized so far
    rpos,             \* restore_ast: number of elements deserialized
    restored,         \* restore_ast: what the call returned
    template,         \* convert_python_to_rust_backrefs: the input
    converted         \* convert_python_to_rust_backrefs: the output

vars == <<pc, data, pattern, replacement, rust_replacement, re, idx, result, ret,
          compiles, examined, sql, dialect, left, precedence, parsed, text, extraction,
          tree, statements, rpos, restored, template, converted>>

regexVars == <<data, pattern, replacement, rust_replacement, re, idx, result, ret,
               compiles, examined>>
parseVars == <<sql, dialect, left, precedence, parsed>>
temporalVars == <<text, extraction>>
restoreVars == <<tree, statements, rpos, restored>>
convertVars == <<template, converted>>

-----------------------------------------------------------------------------
(* Bounds *)

\* longest item list handed to regex_replace_rust
MaxItems == 2

-----------------------------------------------------------------------------
(* Characters and UTF-8 *)

\* '\\' of lib.rs:20
Backslash == 92
\* '$' of lib.rs:24
Dollar == 36

\* char::is_ascii_digit
is_ascii_digit(c) == c \in 48..57

\* str::as_bytes on one character (code points below 0x800)
EncodeChar(c) == IF c < 128 THEN <<c>> ELSE <<192 + (c \div 64), 128 + (c % 64)>>

RECURSIVE as_bytes(_)
\* str::as_bytes / PyBytes::new(py, replaced.as_bytes()): the UTF-8 encoding
as_bytes(s) == IF s = <<>> THEN <<>> ELSE EncodeChar(Head(s)) \o as_bytes(Tail(s))

RECURSIVE Utf8From(_, _, _)
\* std::str::from_utf8, scanning from byte i with the characters decoded so far:
\* [ok, chars, valid_up_to]; valid_up_to is Utf8Error::valid_up_to (0-based)
Utf8From(b, i, acc) ==
    IF i > Len(b) THEN [ok |-> TRUE, chars |-> acc, valid_up_to |-> Len(b)]
    ELSE IF b[i] < 128 THEN Utf8From(b, i + 1, Append(acc, b[i]))
    ELSE IF b[i] \in 194..223 /\ i + 1 <= Len(b) /\ b[i + 1] \in 128..191
         THEN Utf8From(b, i + 2, Append(acc, (b[i] - 192) * 64 + (b[i + 1] - 128)))
    ELSE [ok |-> FALSE, chars |-> <<>>, valid_up_to |-> i - 1]

from_utf8(b) == Utf8From(b, 1, <<>>)

-----------------------------------------------------------------------------
(* Python objects *)

PyNone == [kind |-> "None", v |-> <<>>]
PyStr(s) == [kind |-> "str", v |-> s]
PyBytes(b) == [kind |-> "bytes", v |-> b]

-----------------------------------------------------------------------------
(* convert_python_to_rust_backrefs *)

RECURSIVE ConsumesDigitFrom(_, _)
ConsumesDigitFrom(r, i) ==
    IF i > Len(r) THEN <<>>
    ELSE IF r[i] = Backslash /\ i + 1 <= Len(r) /\ is_ascii_digit(r[i + 1])
         THEN <<Dollar>> \o ConsumesDigitFrom(r, i + 2)
    ELSE <<r[i]>> \o ConsumesDigitFrom(r, i + 1)

\* the translation with the digit consumed (chars.next()) instead of peeked
convert_ConsumesDigit(r) == ConsumesDigitFrom(r, 1)

RECURSIVE UnescapesFrom(_, _)
UnescapesFrom(r, i) ==
    IF i > Len(r) THEN <<>>
    ELSE IF r[i] = Backslash /\ i + 1 <= Len(r) /\ is_ascii_digit(r[i + 1])
         THEN <<Dollar>> \o UnescapesFrom(r, i + 1)
    ELSE IF r[i] = Backslash /\ i + 1 <= Len(r) /\ r[i + 1] = Backslash
         THEN <<Backslash>> \o UnescapesFrom(r, i + 2)
    ELSE <<r[i]>> \o UnescapesFrom(r, i + 1)

\* the translation with an escaped backslash reduced to one backslash
convert_Unescapes(r) == UnescapesFrom(r, 1)

\* One pass over the characters; every iteration pushes exactly one character:
\* '$' for a backslash whose peeked successor is an ASCII digit, else the
\* character itself.
convert_python_to_rust_backrefs(r) ==
    [i \in 1..Len(r) |->
        IF r[i] = Backslash
        THEN IF i + 1 <= Len(r)
             THEN IF is_ascii_digit(r[i + 1]) THEN Dollar ELSE r[i]
             ELSE r[i]
        ELSE r[i]]

-----------------------------------------------------------------------------
(* The regex crate: Regex::new, Regex::replace_all, Captures::expand *)

NoRegex == [ok |-> FALSE, elems |-> <<>>, ngroups |-> 0]

RECURSIVE CompileFrom(_, _, _, _, _)
\* The parser of the pattern: '(' opens a capture group, ')' closes the
\* innermost one, any other character is a literal.  elems lists the literals
\* with the groups each lies in; an unbalanced parenthesis is a syntax error.
CompileFrom(p, i, open, n, acc) ==
    IF i > Len(p)
    THEN IF open = <<>> THEN [ok |-> TRUE, elems |-> acc, ngroups |-> n] ELSE NoRegex
    ELSE IF p[i] = 40 THEN CompileFrom(p, i + 1, <<n + 1>> \o open, n + 1, acc)
    ELSE IF p[i] = 41
         THEN IF open = <<>> THEN NoRegex ELSE CompileFrom(p, i + 1, Tail(open), n, acc)
    ELSE CompileFrom(p, i + 1, open, n,
                     Append(acc, [c |-> p[i], gs |-> {open[k] : k \in 1..Len(open)}]))

\* regex::Regex::new(&pattern_str)
RegexNew(p) == CompileFrom(p, 1, <<>>, 0, <<>>)

RECURSIVE EncodeElems(_)
EncodeElems(es) ==
    IF es = <<>> THEN <<>>
    ELSE LET bs == EncodeChar(Head(es).c)
         IN [k \in 1..Len(bs) |-> [c |-> bs[k], gs |-> Head(es).gs]] \o EncodeElems(Tail(es))

\* regex::bytes::Regex::new(pattern_str): the same pattern, matching the bytes
\* of the UTF-8 encoding of each literal
BytesRegexNew(p) ==
    LET r == RegexNew(p)
    IN IF r.ok THEN [r EXCEPT !.elems = EncodeElems(r.elems)] ELSE r

\* the pattern matches the haystack at position p
MatchAt(r, hay, p) ==
    /\ p + Len(r.elems) - 1 <= Len(hay)
    /\ \A k \in 1..Len(r.elems) : hay[p + k - 1] = r.elems[k].c

RECURSIVE GroupText(_, _, _, _, _)
\* the text group n captured in the match at p (group 0 is the whole match)
GroupText(r, hay, p, n, k) ==
    IF k > Len(r.elems) THEN <<>>
    ELSE (IF n = 0 \/ n \in r.elems[k].gs THEN <<hay[p + k - 1]>> ELSE <<>>)
         \o GroupText(r, hay, p, n, k + 1)

\* Captures::get(n): a group the pattern does not have yields nothing
CapGet(r, hay, p, n) == IF n <= r.ngroups THEN GroupText(r, hay, p, n, 1) ELSE <<>>

\* is_valid_cap_letter: [0-9A-Za-z_]
is_valid_cap_letter(c) == c \in 48..57 \/ c \in 97..122 \/ c \in 65..90 \/ c = 95

RECURSIVE CapEnd(_, _)
\* find_cap_ref: the end (exclusive) of the longest run of name characters from i
CapEnd(t, i) == IF i <= Len(t) /\ is_valid_cap_letter(t[i]) THEN CapEnd(t, i + 1) ELSE i

RECURSIVE Decimal(_)
Decimal(name) ==
    IF name = <<>> THEN 0 ELSE Decimal(SubSeq(name, 1, Len(name) - 1)) * 10 + (name[Len(name)] - 48)

\* Ref::Number(i) when the name parses as a number, Ref::Named otherwise; the
\* pattern language has no named groups, so a named reference expands to nothing
CapRef(r, hay, p, name) ==
    IF \A k \in 1..Len(name) : is_ascii_digit(name[k])
    THEN CapGet(r, hay, p, Decimal(name))
    ELSE <<>>

RECURSIVE ExpandFrom(_, _, _, _, _)
\* Captures::expand: "$$" is a dollar, "$name" with the longest name of
\* [0-9A-Za-z_]+ is a group reference, any other '$' is literal (the braced
\* form "${name}" needs a '{', which no template of the pools holds)
ExpandFrom(t, i, r, hay, p) ==
    IF i > Len(t) THEN <<>>
    ELSE IF t[i] # Dollar THEN <<t[i]>> \o ExpandFrom(t, i + 1, r, hay, p)
    ELSE IF i + 1 <= Len(t) /\ t[i + 1] = Dollar THEN <<Dollar>> \o ExpandFrom(t, i + 2, r, hay, p)
    ELSE LET e == CapEnd(t, i + 1)
         IN IF e = i + 1 THEN <<Dollar>> \o ExpandFrom(t, i + 1, r, hay, p)
            ELSE CapRef(r, hay, p, SubSeq(t, i + 1, e - 1)) \o ExpandFrom(t, e, r, hay, p)

RECURSIVE ReplaceFrom(_, _, _, _)
\* Regex::replace_all: leftmost non-overlapping matches, each replaced by the
\* expanded template; the text between matches is copied
ReplaceFrom(r, hay, t, p) ==
    IF p > Len(hay) + 1 THEN <<>>
    ELSE IF MatchAt(r, hay, p)
         THEN ExpandFrom(t, 1, r, hay, p)
              \o (IF r.elems = <<>>
                  THEN (IF p <= Len(hay) THEN <<hay[p]>> ELSE <<>>) \o ReplaceFrom(r, hay, t, p + 1)
                  ELSE ReplaceFrom(r, hay, t, p + Len(r.elems)))
    ELSE (IF p <= Len(hay) THEN <<hay[p]>> ELSE <<>>) \o ReplaceFrom(r, hay, t, p + 1)

replace_all(r, hay, t) == ReplaceFrom(r, hay, t, 1)

\* Regex::is_match
is_match(r, hay) == \E p \in 1..(Len(hay) + 1) : MatchAt(r, hay, p)

-----------------------------------------------------------------------------
(* Inputs of regex_replace_rust *)

\* "ab", "\u{e9}b" as text; "ab", "b", and two byte strings that are not UTF-8
ItemPool ==
    { PyNone, PyStr(<<97, 98>>), PyStr(<<233, 98>>),
      PyBytes(<<97, 98>>), PyBytes(<<98>>), PyBytes(<<97, 255>>), PyBytes(<<255, 97>>) }

RECURSIVE ListsUpTo(_, _)
ListsUpTo(S, n) ==
    IF n = 0 THEN {<<>>}
    ELSE LET shorter == ListsUpTo(S, n - 1)
         IN shorter \cup {Append(l, x) : l \in {m \in shorter : Len(m) = n - 1}, x \in S}

DataLists == ListsUpTo(ItemPool, MaxItems)

\* "a", "(a)(b)", "(a" as text; "a", "(a)(b)", "(a" and a non-UTF-8 pattern as
\* bytes
PatternPool ==
    { PyStr(<<97>>), PyStr(<<40, 97, 41, 40, 98, 41>>), PyStr(<<40, 97>>),
      PyBytes(<<97>>), PyBytes(<<40, 97, 41, 40, 98, 41>>), PyBytes(<<40, 97>>),
      PyBytes(<<255>>) }

\* "b", "\1", "\1x", "\2\1", "\x", "x\" as text; "\1" and a non-UTF-8 template
\* as bytes; None
ReplacementPool ==
    { PyStr(<<98>>), PyStr(<<92, 49>>), PyStr(<<92, 49, 120>>), PyStr(<<92, 50, 92, 49>>),
      PyStr(<<92, 120>>), PyStr(<<120, 92>>),
      PyBytes(<<92, 49>>), PyBytes(<<255>>), PyNone }

-----------------------------------------------------------------------------
(* regex_replace_rust *)

NoReturn == [status |-> "none", value |-> <<>>, msg |-> "", from_index |-> -1]
Ok(v) == [status |-> "ok", value |-> v, msg |-> "", from_index |-> -1]
\* PyValueError / the extraction's TypeError; from_index is the index the
\* message of a Utf8Error prints ("... from index N"), -1 when it prints none
Err(m, n) == [status |-> "err", value |-> <<>>, msg |-> m, from_index |-> n]

\* pattern.bind(py).is_instance_of::<PyBytes>()
is_bytes(pat) == pat.kind = "bytes"

\* The replacement as a String: in bytes mode bytes (checked UTF-8) or a string,
\* in text mode replacement.extract::<String>()
ReplacementStr(pat, rep) ==
    IF is_bytes(pat)
    THEN IF rep.kind = "bytes"
         THEN LET u == from_utf8(rep.v)
              IN IF u.ok THEN [ok |-> TRUE, s |-> u.chars, err |-> NoReturn]
                 ELSE [ok |-> FALSE, s |-> <<>>,
                       err |-> Err("Invalid UTF-8 in replacement", u.valid_up_to)]
         ELSE IF rep.kind = "str" THEN [ok |-> TRUE, s |-> rep.v, err |-> NoReturn]
         ELSE [ok |-> FALSE, s |-> <<>>, err |-> Err("Replacement must be bytes or string", -1)]
    ELSE IF pat.kind # "str" THEN [ok |-> FALSE, s |-> <<>>, err |-> Err("TypeError", -1)]
    ELSE IF rep.kind # "str" THEN [ok |-> FALSE, s |-> <<>>, err |-> Err("TypeError", -1)]
    ELSE [ok |-> TRUE, s |-> rep.v, err |-> NoReturn]

\* The compilation: [tried, re, err].  In bytes mode the pattern is first read
\* as UTF-8, and BytesRegex::new runs only when that succeeds.
CompilePattern(pat) ==
    IF is_bytes(pat)
    THEN LET u == from_utf8(pat.v)
         IN IF ~u.ok
            THEN [tried |-> FALSE, re |-> NoRegex, err |-> Err("Invalid UTF-8 in pattern", u.valid_up_to)]
            ELSE LET r == BytesRegexNew(u.chars)
                 IN [tried |-> TRUE, re |-> r,
                     err |-> IF r.ok THEN NoReturn ELSE Err("Invalid regex pattern", -1)]
    ELSE LET r == RegexNew(pat.v)
         IN [tried |-> TRUE, re |-> r,
             err |-> IF r.ok THEN NoReturn ELSE Err("Invalid regex pattern", -1)]

\* ReplaceItem recording a failed item as absent instead of ending the call
ReplaceItem_PerItem(pat, r, t, item) ==
    IF is_bytes(pat)
    THEN IF item.kind # "bytes"
         THEN [ok |-> FALSE, out |-> PyNone, err |-> Err("TypeError", -1)]
         ELSE [ok |-> TRUE, out |-> PyBytes(replace_all(r, item.v, as_bytes(t))), err |-> NoReturn]
    ELSE IF item.kind = "bytes"
         THEN LET u == from_utf8(item.v)
              IN IF ~u.ok
                 THEN [ok |-> TRUE, out |-> PyNone, err |-> NoReturn]
                 ELSE [ok |-> TRUE, out |-> PyBytes(as_bytes(replace_all(r, u.chars, t))),
                       err |-> NoReturn]
    ELSE [ok |-> TRUE, out |-> PyBytes(as_bytes(replace_all(r, item.v, t))), err |-> NoReturn]

\* The body of the loop for one present item: [ok, out, err]
ReplaceItem(pat, r, t, item) ==
    IF is_bytes(pat)
    THEN IF item.kind # "bytes"
         THEN [ok |-> FALSE, out |-> PyNone, err |-> Err("TypeError", -1)]
         ELSE [ok |-> TRUE, out |-> PyBytes(replace_all(r, item.v, as_bytes(t))), err |-> NoReturn]
    ELSE IF item.kind = "bytes"
         THEN LET u == from_utf8(item.v)
              IN IF ~u.ok
                 THEN [ok |-> FALSE, out |-> PyNone, err |-> Err("Invalid UTF-8", u.valid_up_to)]
                 ELSE [ok |-> TRUE, out |-> PyBytes(as_bytes(replace_all(r, u.chars, t))),
                       err |-> NoReturn]
    ELSE IF item.kind # "str"
         THEN [ok |-> FALSE, out |-> PyNone, err |-> Err("TypeError", -1)]
    ELSE [ok |-> TRUE, out |-> PyBytes(as_bytes(replace_all(r, item.v, t))), err |-> NoReturn]

\* StepItem with the absent items skipped instead of pushed
StepItem_DropsNone(pat, r, t, item, res) ==
    IF item = PyNone THEN [ok |-> TRUE, result |-> res, err |-> NoReturn]
    ELSE LET o == ReplaceItem(pat, r, t, item)
         IN IF o.ok THEN [ok |-> TRUE, result |-> Append(res, o.out), err |-> NoReturn]
            ELSE [ok |-> FALSE, result |-> res, err |-> o.err]

\* The loop's match on one item: None is pushed as None, a present item is
\* replaced and pushed, or its error ends the call
StepItem(pat, r, t, item, res) ==
    IF item = PyNone THEN [ok |-> TRUE, result |-> Append(res, PyNone), err |-> NoReturn]
    ELSE LET o == ReplaceItem(pat, r, t, item)
         IN IF o.ok THEN [ok |-> TRUE, result |-> Append(res, o.out), err |-> NoReturn]
            ELSE [ok |-> FALSE, result |-> res, err |-> o.err]

\* the caller invokes regex_replace_rust(data, pattern, replacement)
RegexCall ==
    /\ pc = "idle"
    /\ \E d \in DataLists, p \in PatternPool, r \in ReplacementPool :
          /\ data' = d
          /\ pattern' = p
          /\ replacement' = r
    /\ pc' = "called"
    /\ UNCHANGED <<rust_replacement, re, idx, result, ret, compiles, examined>>
    /\ UNCHANGED <<parseVars, temporalVars, restoreVars, convertVars>>

\* the arguments are extracted and the template is translated
Prepare ==
    /\ pc = "called"
    /\ LET rs == ReplacementStr(pattern, replacement)
       IN IF rs.ok
          THEN /\ rust_replacement' = convert_python_to_rust_backrefs(rs.s)
               /\ pc' = "prepared"
               /\ ret' = ret
          ELSE /\ rust_replacement' = rust_replacement
               /\ pc' = "error"
               /\ ret' = rs.err
    /\ UNCHANGED <<data, pattern, replacement, re, idx, result, compiles, examined>>
    /\ UNCHANGED <<parseVars, temporalVars, restoreVars, convertVars>>

\* Compile with the compilation left to the loop: the loop is entered with no
\* regex compiled
Compile_Deferred ==
    /\ pc = "prepared"
    /\ pc' = "loop"
    /\ result' = <<>>
    /\ UNCHANGED <<data, pattern, replacement, rust_replacement, re, idx, ret, compiles,
                   examined>>
    /\ UNCHANGED <<parseVars, temporalVars, restoreVars, convertVars>>

\* "Compile regex once"
Compile ==
    /\ pc = "prepared"
    /\ LET c == CompilePattern(pattern)
       IN /\ re' = c.re
          /\ compiles' = IF c.tried THEN compiles + 1 ELSE compiles
          /\ IF c.re.ok
             THEN /\ pc' = "loop"
                  /\ result' = <<>>
                  /\ ret' = ret
             ELSE /\ pc' = "error"
                  /\ result' = result
                  /\ ret' = c.err
    /\ UNCHANGED <<data, pattern, replacement, rust_replacement, idx, examined>>
    /\ UNCHANGED <<parseVars, temporalVars, restoreVars, convertVars>>

\* one iteration of "for item_opt in data"
ProcessItem ==
    /\ pc = "loop"
    /\ idx < Len(data)
    /\ LET o == StepItem(pattern, re, rust_replacement, data[idx + 1], result)
       IN /\ result' = o.result
          /\ IF o.ok
             THEN /\ pc' = "loop"
                  /\ ret' = ret
             ELSE /\ pc' = "error"
                  /\ ret' = o.err
    /\ idx' = idx + 1
    /\ examined' = examined + 1
    /\ UNCHANGED <<data, pattern, replacement, rust_replacement, re, compiles>>
    /\ UNCHANGED <<parseVars, temporalVars, restoreVars, convertVars>>

\* Ok(result)
Return ==
    /\ pc = "loop"
    /\ idx = Len(data)
    /\ pc' = "done"
    /\ ret' = Ok(result)
    /\ UNCHANGED <<data, pattern, replacement, rust_replacement, re, idx, result,
                   compiles, examined>>
    /\ UNCHANGED <<parseVars, temporalVars, restoreVars, convertVars>>

-----------------------------------------------------------------------------
(* The sqlparser crate as parse_sql uses it: expressions over a small token  *)
(* alphabet.  A query text is the keyword SELECT followed by the tokens of   *)
(* sql; an expression is a tuple whose first element names the Expr variant. *)

\* longest token sequence after SELECT
MaxTokens == 4

\* Word(a), Word(DIV) (the keyword), Token::AtArrow, Token::Gt, Token::Plus
TokenPool == {"a", "DIV", "@>", ">", "+"}

SqlTexts == ListsUpTo(TokenPool, MaxTokens)

Identifier(name) == <<"Identifier", name>>
UnaryOp(op, e) == <<"UnaryOp", op, e>>
BinaryOp(l, op, r) == <<"BinaryOp", l, op, r>>

\* Result<Expr, ParserError> with the tokens left; "panic" is an unwinding panic
POk(e, rest) == [st |-> "ok", expr |-> e, rest |-> rest]
PErr == [st |-> "err", expr |-> <<>>, rest |-> <<>>]
PPanic == [st |-> "panic", expr |-> <<>>, rest |-> <<>>]

\* Result::unwrap: an Err panics
unwrap(r) == IF r.st = "ok" THEN r ELSE PPanic

\* Option<Result<Expr, ParserError>> of the dialect hook
HookNone(toks) == [kind |-> "None", res |-> [st |-> "none", expr |-> <<>>, rest |-> toks]]
HookSome(r) == IF r.st = "panic" THEN [kind |-> "Panic", res |-> PPanic]
               ELSE [kind |-> "Some", res |-> r]

\* Parser::parse_keyword / Parser::consume_token: the next token is the one
\* asked for (and is then consumed)
parse_keyword(toks, kw) == toks # <<>> /\ Head(toks) = kw
consume_token(toks, tok) == toks # <<>> /\ Head(toks) = tok

\* Dialect::get_next_precedence_default: MulDivModOp 40 for DIV, PlusMinus 30,
\* Eq 20 for the comparisons, PgOther 16 for @>, 0 for anything else and EOF
get_next_precedence(toks) ==
    IF toks = <<>> THEN 0
    ELSE CASE Head(toks) = "DIV" -> 40
           [] Head(toks) = "+" -> 30
           [] Head(toks) = ">" -> 20
           [] Head(toks) = "@>" -> 16
           [] OTHER -> 0

RECURSIVE parse_subexpr(_, _, _)
RECURSIVE parse_prefix(_, _)
RECURSIVE InfixLoop(_, _, _, _)
RECURSIVE Parser_parse_infix(_, _, _, _)
RECURSIVE parse_infix(_, _, _)

\* Parser::parse_expr
parse_expr(d, toks) == parse_subexpr(d, toks, 0)

\* Parser::parse_prefix: a word is an identifier (DIV has no prefix meaning of
\* its own), '+' is the unary plus, any other token is no expression
parse_prefix(d, toks) ==
    IF toks = <<>> THEN PErr
    ELSE IF Head(toks) \in {"a", "DIV"} THEN POk(Identifier(Head(toks)), Tail(toks))
    ELSE IF Head(toks) = "+"
         THEN LET e == parse_subexpr(d, Tail(toks), 40)
              IN IF e.st = "ok" THEN POk(UnaryOp("Plus", e.expr), e.rest) ELSE e
    ELSE PErr

\* Parser::parse_subexpr: the prefix, then infix operators while the next
\* token binds tighter than precedence
parse_subexpr(d, toks, prec) ==
    LET pre == parse_prefix(d, toks)
    IN IF pre.st = "ok" THEN InfixLoop(d, pre.expr, pre.rest, prec) ELSE pre

InfixLoop(d, expr, toks, prec) ==
    LET next_precedence == get_next_precedence(toks)
    IN IF prec >= next_precedence THEN POk(expr, toks)
       ELSE LET r == Parser_parse_infix(d, expr, toks, next_precedence)
            IN IF r.st = "ok" THEN InfixLoop(d, r.expr, r.rest, prec) ELSE r

\* parse_infix with @> taken as the operator whatever follows it
parse_infix_NoLookahead(toks, expr, prec) ==
    IF parse_keyword(toks, "DIV")
    THEN LET right == unwrap(parse_expr("OpteryxDialect", Tail(toks)))
         IN HookSome(IF right.st = "ok"
                     THEN POk(BinaryOp(expr, "MyIntegerDivide", right.expr), right.rest)
                     ELSE right)
    ELSE IF consume_token(toks, "@>")
         THEN LET right == unwrap(parse_expr("OpteryxDialect", Tail(toks)))
              IN HookSome(IF right.st = "ok"
                          THEN POk(BinaryOp(expr, "AtArrow", right.expr), right.rest)
                          ELSE right)
    ELSE HookNone(toks)

\* parse_infix with the right operand parsed at the precedence passed in
parse_infix_UsesPrecedence(toks, expr, prec) ==
    IF parse_keyword(toks, "DIV")
    THEN LET right == unwrap(parse_subexpr("OpteryxDialect", Tail(toks), prec))
         IN HookSome(IF right.st = "ok"
                     THEN POk(BinaryOp(expr, "MyIntegerDivide", right.expr), right.rest)
                     ELSE right)
    ELSE IF consume_token(toks, "@>")
         THEN IF consume_token(Tail(toks), ">")
              THEN LET right == unwrap(parse_subexpr("OpteryxDialect", Tail(Tail(toks)), prec))
                   IN HookSome(IF right.st = "ok"
                               THEN POk(BinaryOp(expr, "Custom(ArrayContainsAll)", right.expr),
                                        right.rest)
                               ELSE right)
              ELSE LET right == unwrap(parse_subexpr("OpteryxDialect", Tail(toks), prec))
                   IN HookSome(IF right.st = "ok"
                               THEN POk(BinaryOp(expr, "AtArrow", right.expr), right.rest)
                               ELSE right)
    ELSE HookNone(toks)

\* OpteryxDialect::parse_infix(parser, expr, _precedence)
parse_infix(toks, expr, prec) ==
    IF parse_keyword(toks, "DIV")
    THEN LET right == unwrap(parse_expr("OpteryxDialect", Tail(toks)))
         IN HookSome(IF right.st = "ok"
                     THEN POk(BinaryOp(expr, "MyIntegerDivide", right.expr), right.rest)
                     ELSE right)
    ELSE IF consume_token(toks, "@>")
         THEN IF consume_token(Tail(toks), ">")
              THEN LET right == unwrap(parse_expr("OpteryxDialect", Tail(Tail(toks))))
                   IN HookSome(IF right.st = "ok"
                               THEN POk(BinaryOp(expr, "Custom(ArrayContainsAll)", right.expr),
                                        right.rest)
                               ELSE right)
              ELSE LET right == unwrap(parse_expr("OpteryxDialect", Tail(toks)))
                   IN HookSome(IF right.st = "ok"
                               THEN POk(BinaryOp(expr, "AtArrow", right.expr), right.rest)
                               ELSE right)
    ELSE HookNone(toks)

\* Dialect::parse_infix of dialect d: the hook above for OpteryxDialect, the
\* trait's default (None) for every other dialect
dialect_parse_infix(d, toks, expr, prec) ==
    IF d = "OpteryxDialect" THEN parse_infix(toks, expr, prec) ELSE HookNone(toks)

\* Parser::parse_infix: the dialect's hook first, and the built-in operators
\* when it declines; a built-in operator's right operand is parsed at the
\* operator's own precedence
Parser_parse_infix(d, expr, toks, prec) ==
    LET h == dialect_parse_infix(d, toks, expr, prec)
        op == CASE Head(toks) = "+" -> "Plus"
                [] Head(toks) = ">" -> "Gt"
                [] Head(toks) = "DIV" -> "MyIntegerDivide"
                [] Head(toks) = "@>" -> "AtArrow"
                [] OTHER -> ""
    IN IF h.kind # "None" THEN h.res
       ELSE IF op = "" THEN PErr
       ELSE LET right == parse_subexpr(d, Tail(toks), prec)
            IN IF right.st = "ok" THEN POk(BinaryOp(expr, op, right.expr), right.rest)
               ELSE right

\* Parser::parse_sql(dialect, "SELECT " + toks): one select item, an optional
\* alias, then the end of the statement
Parser_parse_sql(d, toks) ==
    LET e == parse_expr(d, toks)
    IN IF e.st # "ok" THEN [st |-> e.st, statements |-> <<>>]
       ELSE LET aliased == e.rest # <<>> /\ Head(e.rest) = "a"
                rest == IF aliased THEN Tail(e.rest) ELSE e.rest
                item == IF aliased THEN <<"ExprWithAlias", e.expr, Head(e.rest)>>
                        ELSE <<"UnnamedExpr", e.expr>>
            IN IF rest # <<>> THEN [st |-> "err", statements |-> <<>>]
               ELSE [st |-> "ok", statements |-> <<<<"Query", item>>>>]

RECURSIVE pythonize(_)
\* pythonize::pythonize: an enum variant becomes a one-key mapping from the
\* variant's name to its fields, a string stays a string
pythonize(n) ==
    CASE n[1] = "Identifier" -> [variant |-> "Identifier", fields |-> <<n[2]>>]
      [] n[1] = "UnaryOp" -> [variant |-> "UnaryOp", fields |-> <<n[2], pythonize(n[3])>>]
      [] n[1] = "BinaryOp" ->
            [variant |-> "BinaryOp", fields |-> <<pythonize(n[2]), n[3], pythonize(n[4])>>]
      [] n[1] = "UnnamedExpr" -> [variant |-> "UnnamedExpr", fields |-> <<pythonize(n[2])>>]
      [] n[1] = "ExprWithAlias" ->
            [variant |-> "ExprWithAlias", fields |-> <<pythonize(n[2]), n[3]>>]
      [] n[1] = "Query" -> [variant |-> "Query", fields |-> <<pythonize(n[2])>>]

-----------------------------------------------------------------------------
(* parse_sql (lib.rs) *)

DialectNames == {"opteryx", "mysql", "postgres"}

\* chosen_dialect as sqloxide's string_to_dialect would choose it
chosen_dialect_ByName(name) == IF name = "opteryx" THEN "OpteryxDialect" ELSE "GenericDialect"

\* let chosen_dialect = Box::new(OpteryxDialect {})
chosen_dialect(name) == "OpteryxDialect"

\* parse_sql(py, sql, _dialect): the statements pythonized, the parser's error
\* as "Query parsing failed", or the panic of the hook unwinding through it
parse_sql(s, dialect_name) ==
    LET parse_result == Parser_parse_sql(chosen_dialect(dialect_name), s)
    IN CASE parse_result.st = "ok" ->
              [status |-> "ok",
               value |-> [i \in 1..Len(parse_result.statements) |->
                             pythonize(parse_result.statements[i])],
               msg |-> ""]
         [] parse_result.st = "err" ->
              [status |-> "err", value |-> <<>>, msg |-> "Query parsing failed"]
         [] OTHER -> [status |-> "panic", value |-> <<>>, msg |-> ""]

\* the caller invokes parse_sql(sql, dialect)
ParseSqlCall ==
    /\ pc = "idle"
    /\ \E s \in SqlTexts, dn \in DialectNames :
          /\ sql' = s
          /\ dialect' = dn
          /\ parsed' = parse_sql(s, dn)
    /\ pc' = "parse_sql"
    /\ UNCHANGED <<left, precedence>>
    /\ UNCHANGED <<regexVars, temporalVars, restoreVars, convertVars>>

\* the expressions and precedences the hook is given
LeftPool == {Identifier("a"), BinaryOp(Identifier("a"), "Plus", Identifier("a"))}
PrecedencePool == {16, 40}

\* the parser invokes the dialect hook at an infix position
ParseInfixCall ==
    /\ pc = "idle"
    /\ \E l \in LeftPool, toks \in SqlTexts, p \in PrecedencePool :
          /\ left' = l
          /\ sql' = toks
          /\ precedence' = p
          /\ parsed' = parse_infix(toks, l, p)
    /\ pc' = "parse_infix"
    /\ UNCHANGED dialect
    /\ UNCHANGED <<regexVars, temporalVars, restoreVars, convertVars>>

-----------------------------------------------------------------------------
(* extract_temporal_for_clauses (temporal_parser.rs) *)

\* longest text, in lexemes
MaxWords == 3

LexemePool == {"SELECT", "t", "FOR", "TODAY"}

Texts == ListsUpTo(LexemePool, MaxWords)

RECURSIVE StripFor(_)
StripFor(t) ==
    IF t = <<>> THEN <<>>
    ELSE IF Head(t) = "FOR" THEN <<>>
    ELSE <<Head(t)>> \o StripFor(Tail(t))

\* an extraction that cuts the text at the first FOR and reports the clause
extract_temporal_for_clauses_Strips(t) ==
    [clean_sql |-> StripFor(t),
     filters |-> IF \E i \in 1..Len(t) : t[i] = "FOR"
                 THEN <<[relation |-> "t", temporal_clause |-> "FOR"]>> ELSE <<>>]

\* TemporalExtractionResult { clean_sql: sql.to_string(), filters: Vec::new() }
extract_temporal_for_clauses(t) ==
    [clean_sql |-> [i \in 1..Len(t) |-> t[i]], filters |-> <<>>]

\* the caller invokes extract_temporal_for_clauses(sql)
ExtractCall ==
    /\ pc = "idle"
    /\ \E t \in Texts :
          /\ text' = t
          /\ extraction' = extract_temporal_for_clauses(t)
    /\ pc' = "extracted"
    /\ UNCHANGED <<regexVars, parseVars, restoreVars, convertVars>>

-----------------------------------------------------------------------------
(* restore_ast (sqloxide.rs).  A structured value is a string or a one-key *)
(* mapping from a variant's name to the list of its fields.                *)

\* longest list of structured values handed to restore_ast
MaxStatements == 2

SvText(str) == [kind |-> "str", tag |-> str, items |-> <<>>]
SvMap(tag, items) == [kind |-> "dict", tag |-> tag, items |-> items]

RECURSIVE structured(_)
\* the Python tree pythonize builds for a node, as the host hands it back
structured(n) ==
    CASE n[1] = "Identifier" -> SvMap("Identifier", <<SvText(n[2])>>)
      [] n[1] = "UnaryOp" -> SvMap("UnaryOp", <<SvText(n[2]), structured(n[3])>>)
      [] n[1] = "BinaryOp" ->
            SvMap("BinaryOp", <<structured(n[2]), SvText(n[3]), structured(n[4])>>)
      [] n[1] = "UnnamedExpr" -> SvMap("UnnamedExpr", <<structured(n[2])>>)
      [] n[1] = "ExprWithAlias" -> SvMap("ExprWithAlias", <<structured(n[2]), SvText(n[3])>>)
      [] n[1] = "Query" -> SvMap("Query", <<structured(n[2])>>)

\* the statement parsed from "SELECT " + toks
StatementOf(toks) == Parser_parse_sql("OpteryxDialect", toks).statements[1]

\* three trees of parsed statements; a BinaryOp without its right operand, a
\* string where an expression is required, and an unknown statement tag
TreePool ==
    { structured(StatementOf(<<"a">>)),
      structured(StatementOf(<<"a", "DIV", "a", "a">>)),
      structured(StatementOf(<<"+", "a", "@>", ">", "a">>)),
      SvMap("Query", <<SvMap("UnnamedExpr",
          <<SvMap("BinaryOp", <<structured(Identifier("a")), SvText("Plus")>>)>>)>>),
      SvMap("Query", <<SvMap("UnnamedExpr", <<SvText("a")>>)>>),
      SvMap("Frobnicate", <<>>) }

Trees == ListsUpTo(TreePool, MaxStatements)

\* BinaryOperator / UnaryOperator variants and their Display
OperatorText(op) ==
    CASE op = "Plus" -> "+"
      [] op = "Gt" -> ">"
      [] op = "MyIntegerDivide" -> "DIV"
      [] op = "AtArrow" -> "@>"
      [] op = "Custom(ArrayContainsAll)" -> "ArrayContainsAll"
      [] OTHER -> ""

DOk(n) == [ok |-> TRUE, ast |-> n, err |-> ""]
DErr(m) == [ok |-> FALSE, ast |-> <<>>, err |-> m]

RECURSIVE depythonize_expr(_)
\* Deserialize for Expr: the tag must name a variant, every field must be
\* there and have the shape of its type
depythonize_expr(v) ==
    IF v.kind # "dict" THEN DErr("invalid type")
    ELSE CASE v.tag = "Identifier" ->
                IF Len(v.items) < 1 THEN DErr("missing field")
                ELSE IF v.items[1].kind # "str" THEN DErr("invalid type")
                ELSE DOk(Identifier(v.items[1].tag))
           [] v.tag = "UnaryOp" ->
                IF Len(v.items) < 2 THEN DErr("missing field")
                ELSE IF v.items[1].kind # "str" THEN DErr("invalid type")
                ELSE IF v.items[1].tag # "Plus" THEN DErr("unknown variant")
                ELSE LET e == depythonize_expr(v.items[2])
                     IN IF e.ok THEN DOk(UnaryOp(v.items[1].tag, e.ast)) ELSE e
           [] v.tag = "BinaryOp" ->
                IF Len(v.items) < 3 THEN DErr("missing field")
                ELSE IF v.items[2].kind # "str" THEN DErr("invalid type")
                ELSE IF OperatorText(v.items[2].tag) = "" THEN DErr("unknown variant")
                ELSE LET l == depythonize_expr(v.items[1])
                         r == depythonize_expr(v.items[3])
                     IN IF ~l.ok THEN l
                        ELSE IF ~r.ok THEN r
                        ELSE DOk(BinaryOp(l.ast, v.items[2].tag, r.ast))
           [] OTHER -> DErr("unknown variant")

\* Deserialize for Statement
depythonize_statement(v) ==
    IF v.kind # "dict" THEN DErr("invalid type")
    ELSE IF v.tag # "Query" THEN DErr("unknown variant")
    ELSE IF Len(v.items) < 1 THEN DErr("missing field")
    ELSE LET item == v.items[1]
         IN IF item.kind # "dict" THEN DErr("invalid type")
            ELSE CASE item.tag = "UnnamedExpr" ->
                        IF Len(item.items) < 1 THEN DErr("missing field")
                        ELSE LET e == depythonize_expr(item.items[1])
                             IN IF e.ok THEN DOk(<<"Query", <<"UnnamedExpr", e.ast>>>>) ELSE e
                   [] item.tag = "ExprWithAlias" ->
                        IF Len(item.items) < 2 THEN DErr("missing field")
                        ELSE IF item.items[2].kind # "str" THEN DErr("invalid type")
                        ELSE LET e == depythonize_expr(item.items[1])
                             IN IF e.ok
                                THEN DOk(<<"Query", <<"ExprWithAlias", e.ast, item.items[2].tag>>>>)
                                ELSE e
                   [] OTHER -> DErr("unknown variant")

RECURSIVE expr_to_string(_)
\* Display for Expr, as the words of the rendered text
expr_to_string(n) ==
    CASE n[1] = "Identifier" -> <<n[2]>>
      [] n[1] = "UnaryOp" -> <<OperatorText(n[2])>> \o expr_to_string(n[3])
      [] n[1] = "BinaryOp" ->
            expr_to_string(n[2]) \o <<OperatorText(n[3])>> \o expr_to_string(n[4])

\* std::string::ToString::to_string on a Statement
to_string(stmt) ==
    LET item == stmt[2]
    IN <<"SELECT">> \o expr_to_string(item[2])
       \o (IF item[1] = "ExprWithAlias" THEN <<"AS", item[3]>> ELSE <<>>)

\* the step on one element that leaves an invalid element out of the list
DepythonizeStep_SkipsInvalid(v, stmts) ==
    LET o == depythonize_statement(v)
    IN [ok |-> TRUE, statements |-> IF o.ok THEN Append(stmts, o.ast) ELSE stmts, err |-> ""]

\* depythonize of Vec<Statement>, one element: the statement is appended, or
\* the element's error ends the deserialization
DepythonizeStep(v, stmts) ==
    LET o == depythonize_statement(v)
    IN IF o.ok THEN [ok |-> TRUE, statements |-> Append(stmts, o.ast), err |-> ""]
       ELSE [ok |-> FALSE, statements |-> stmts, err |-> o.err]

\* the caller invokes restore_ast(ast)
RestoreCall ==
    /\ pc = "idle"
    /\ \E t \in Trees : tree' = t
    /\ pc' = "depythonize"
    /\ UNCHANGED <<statements, rpos, restored>>
    /\ UNCHANGED <<regexVars, parseVars, temporalVars, convertVars>>

\* pythonize::depythonize(ast) reaching the next element of the list; on an
\* error the call returns "Query serialization failed"
DepythonizeElement ==
    /\ pc = "depythonize"
    /\ rpos < Len(tree)
    /\ LET o == DepythonizeStep(tree[rpos + 1], statements)
       IN /\ statements' = o.statements
          /\ IF o.ok
             THEN /\ pc' = "depythonize"
                  /\ restored' = restored
             ELSE /\ pc' = "restore_error"
                  /\ restored' = Err("Query serialization failed", -1)
    /\ rpos' = rpos + 1
    /\ UNCHANGED tree
    /\ UNCHANGED <<regexVars, parseVars, temporalVars, convertVars>>

\* Ok(output.iter().map(to_string).collect())
RestoreReturn ==
    /\ pc = "depythonize"
    /\ rpos = Len(tree)
    /\ pc' = "restore_done"
    /\ restored' = Ok([i \in 1..Len(statements) |-> to_string(statements[i])])
    /\ UNCHANGED <<tree, statements, rpos>>
    /\ UNCHANGED <<regexVars, parseVars, temporalVars, convertVars>>

-----------------------------------------------------------------------------
(* convert_python_to_rust_backrefs called on its own *)

\* longest replacement template
MaxTemplate == 4

\* '\\', '1', 'x', '$'
TemplateChars == {Backslash, 49, 120, Dollar}

Templates == ListsUpTo(TemplateChars, MaxTemplate)

\* the translation of a template
ConvertCall ==
    /\ pc = "idle"
    /\ \E t \in Templates :
          /\ template' = t
          /\ converted' = convert_python_to_rust_backrefs(t)
    /\ pc' = "converted"
    /\ UNCHANGED <<regexVars, parseVars, temporalVars, restoreVars>>

-----------------------------------------------------------------------------

Init ==
    /\ pc = "idle"
    /\ data = <<>>
    /\ pattern = PyNone
    /\ replacement = PyNone
    /\ rust_replacement = <<>>
    /\ re = NoRegex
    /\ idx = 0
    /\ result = <<>>
    /\ ret = NoReturn
    /\ compiles = 0
    /\ examined = 0
    /\ sql = <<>>
    /\ dialect = ""
    /\ left = <<>>
    /\ precedence = 0
    /\ parsed = <<>>
    /\ text = <<>>
    /\ extraction = <<>>
    /\ tree = <<>>
    /\ statements = <<>>
    /\ rpos = 0
    /\ restored = NoReturn
    /\ template = <<>>
    /\ converted = <<>>

Next ==
    \/ RegexCall
    \/ Prepare
    \/ Compile
    \/ ProcessItem
    \/ Return
    \/ ParseSqlCall
    \/ ParseInfixCall
    \/ ExtractCall
    \/ ConvertCall
    \/ RestoreCall
    \/ DepythonizeElement
    \/ RestoreReturn

Spec == Init /\ [][Next]_vars

-----------------------------------------------------------------------------
(* regex_replace_rust: the claims *)

\* the item is a byte string that is not valid UTF-8
InvalidUtf8Item(item) == item.kind = "bytes" /\ ~from_utf8(item.v).ok

\* the text or bytes of a present item in which the compiled pattern is sought
Haystack(item) ==
    IF is_bytes(pattern) \/ item.kind = "str" THEN item.v ELSE from_utf8(item.v).chars

\* C1: a successful call returns a list of the input's length, and its item at
\* i is absent exactly when the input's item at i is absent.
C1_LengthAndAbsence ==
    pc = "done" =>
        /\ ret.status = "ok"
        /\ Len(ret.value) = Len(data)
        /\ \A i \in 1..Len(data) : (ret.value[i] = PyNone) <=> (data[i] = PyNone)

C1_Witness ==
    /\ pc = "done"
    /\ Len(data) = 2
    /\ data[1] = PyNone
    /\ data[2] # PyNone

\* C2: every present item in which the pattern has no match is returned
\* unchanged at its index, in content and in kind.
C2_NonMatchingUnchanged ==
    pc = "done" =>
        \A i \in 1..Len(data) :
            (data[i] # PyNone /\ ~is_match(re, Haystack(data[i]))) => ret.value[i] = data[i]

RECURSIVE PyExpandFrom(_, _, _, _, _)
\* The template read as C3 reads it: a backslash followed by a digit N stands
\* for group N, whatever follows the digit; every other character is literal.
PyExpandFrom(t, i, r, hay, p) ==
    IF i > Len(t) THEN <<>>
    ELSE IF t[i] = Backslash /\ i + 1 <= Len(t) /\ is_ascii_digit(t[i + 1])
         THEN CapGet(r, hay, p, t[i + 1] - 48) \o PyExpandFrom(t, i + 2, r, hay, p)
    ELSE <<t[i]>> \o PyExpandFrom(t, i + 1, r, hay, p)

RECURSIVE PyReplaceFrom(_, _, _, _)
PyReplaceFrom(r, hay, t, p) ==
    IF p > Len(hay) THEN <<>>
    ELSE IF MatchAt(r, hay, p)
         THEN PyExpandFrom(t, 1, r, hay, p) \o PyReplaceFrom(r, hay, t, p + Len(r.elems))
    ELSE <<hay[p]>> \o PyReplaceFrom(r, hay, t, p + 1)

\* C3: in every match every backreference \N is replaced by the text of group
\* N, and a backslash not followed by a digit is left as it is.
C3_BackrefsSubstituted ==
    (pc = "done" /\ ~is_bytes(pattern)) =>
        \A i \in 1..Len(data) :
            data[i] # PyNone =>
                ret.value[i].v = as_bytes(PyReplaceFrom(re, Haystack(data[i]), replacement.v, 1))

\* C4: the pattern is compiled at most once and before any item is looked at;
\* an invalid pattern ends the call with the pattern error, no item examined
\* and no result list.
C4_CompileOnceFailFast ==
    /\ compiles <= 1
    /\ pc \in {"loop", "done"} => (compiles = 1 /\ re.ok)
    /\ examined > 0 => (compiles = 1 /\ re.ok)
    /\ (compiles = 1 /\ ~re.ok) =>
          /\ pc = "error"
          /\ ret = Err("Invalid regex pattern", -1)
          /\ examined = 0
          /\ idx = 0
          /\ result = <<>>

C4_Witness ==
    /\ pc = "error"
    /\ compiles = 1
    /\ ret.msg = "Invalid regex pattern"
    /\ \E i \in 1..Len(data) : InvalidUtf8Item(data[i])

\* C5: the error for a byte item that is not UTF-8 in text mode names the index
\* of that item in the list (counted from 0 or from 1).
C5_ErrorNamesItemIndex ==
    (pc = "error" /\ ret.msg = "Invalid UTF-8") => ret.from_index \in {idx - 1, idx}

\* C6: in text mode the first byte item that is not UTF-8 ends the call with
\* the error alone, whatever was computed before it; in bytes mode such an item
\* is substituted byte for byte.
C6_EncodingAllOrNothing ==
    /\ (~is_bytes(pattern) /\ examined > 0) =>
          \A i \in 1..idx :
              InvalidUtf8Item(data[i]) =>
                  /\ pc = "error"
                  /\ idx = i
                  /\ ret = Err("Invalid UTF-8", from_utf8(data[i].v).valid_up_to)
    /\ (~is_bytes(pattern) /\ pc = "done") =>
          \A i \in 1..Len(data) : ~InvalidUtf8Item(data[i])
    /\ (is_bytes(pattern) /\ pc = "done") =>
          \A i \in 1..Len(data) :
              InvalidUtf8Item(data[i]) =>
                  /\ ret.value[i] = PyBytes(replace_all(re, data[i].v, as_bytes(rust_replacement)))
                  /\ ~is_match(re, data[i].v) => ret.value[i] = data[i]
    /\ is_bytes(pattern) => ret.msg # "Invalid UTF-8"

C6_Witness ==
    /\ pc = "error"
    /\ ~is_bytes(pattern)
    /\ idx = 2
    /\ InvalidUtf8Item(data[2])
    /\ result # <<>>
    /\ ret.value = <<>>

-----------------------------------------------------------------------------
(* parse_sql and the infix hook: the claims *)

\* the hook consumes an operator at the head of the tokens
HookConsumes(toks) == toks # <<>> /\ Head(toks) \in {"DIV", "@>"}

\* @> immediately followed by >
LongOperator(toks) == Len(toks) >= 2 /\ toks[1] = "@>" /\ toks[2] = ">"

\* the tokens of the right operand, after the longest operator at the head
OperandTokens(toks) == IF LongOperator(toks) THEN Tail(Tail(toks)) ELSE Tail(toks)

\* the operator maximal munch selects
MunchedOperator(toks) ==
    IF Head(toks) = "DIV" THEN "MyIntegerDivide"
    ELSE IF LongOperator(toks) THEN "Custom(ArrayContainsAll)"
    ELSE "AtArrow"

\* C7: a grammar violation reaches the caller as a parse error value: the hook
\* yields Some(Err) when the operand of DIV, @> or @>> does not parse, and
\* parse_sql returns its statements or "Query parsing failed", nothing else.
C7_GrammarViolationIsParseError ==
    /\ pc = "parse_sql" =>
          \/ parsed.status = "ok"
          \/ parsed.status = "err" /\ parsed.msg = "Query parsing failed"
    /\ (pc = "parse_infix" /\ HookConsumes(sql)
            /\ parse_expr("OpteryxDialect", OperandTokens(sql)).st # "ok") =>
          (parsed.kind = "Some" /\ parsed.res.st = "err")

\* C8: the hook takes the longest operator: @> > gives Custom(ArrayContainsAll)
\* over the operand after the >, @> alone gives AtArrow, DIV gives
\* MyIntegerDivide, each over the expression passed in and the operand that
\* follows; where the operand does not parse no operation is produced; any
\* other token gives None with nothing consumed.
C8_MaximalMunch ==
    pc = "parse_infix" =>
        IF ~HookConsumes(sql) THEN parsed = HookNone(sql)
        ELSE LET operand == parse_expr("OpteryxDialect", OperandTokens(sql))
             IN IF operand.st = "ok"
                THEN parsed = [kind |-> "Some",
                               res |-> POk(BinaryOp(left, MunchedOperator(sql), operand.expr),
                                           operand.rest)]
                ELSE parsed.kind # "None" /\ parsed.res.st # "ok"

C8_Witness ==
    /\ pc = "parse_infix"
    /\ LongOperator(sql)
    /\ parsed.kind = "Some"
    /\ parsed.res.st = "ok"
    /\ parsed.res.expr[3] = "Custom(ArrayContainsAll)"

\* C9: the outcome of parse_sql is the same for every dialect argument.
C9_DialectIgnored ==
    pc = "parse_sql" => \A dn \in DialectNames : parsed = parse_sql(sql, dn)

C9_Witness ==
    /\ pc = "parse_sql"
    /\ dialect = "mysql"
    /\ Len(sql) >= 3
    /\ sql[2] = "@>"
    /\ sql[3] = ">"
    /\ parsed.status = "ok"

\* C10: extract_temporal_for_clauses returns the text as it was given and no
\* filter, with or without a FOR clause in it.
C10_ExtractionIsIdentity ==
    pc = "extracted" => (extraction.clean_sql = text /\ extraction.filters = <<>>)

C10_Witness ==
    /\ pc = "extracted"
    /\ Len(text) = 3
    /\ text[2] = "FOR"
    /\ extraction.clean_sql = text

-----------------------------------------------------------------------------
(* restore_ast: the claim *)

\* C11: restore_ast returns one rendered string per statement, in the order of
\* the list, when every element deserializes, and only an error, with no
\* string at all, when some element does not, whatever precedes it.
C11_RestoreAllOrNothing ==
    /\ pc = "restore_done" =>
          /\ \A i \in 1..Len(tree) : depythonize_statement(tree[i]).ok
          /\ restored.status = "ok"
          /\ Len(restored.value) = Len(tree)
          /\ \A i \in 1..Len(tree) :
                restored.value[i] = to_string(depythonize_statement(tree[i]).ast)
    /\ pc = "restore_error" =>
          /\ ~depythonize_statement(tree[rpos]).ok
          /\ restored = Err("Query serialization failed", -1)
          /\ restored.value = <<>>
    /\ (pc \in {"depythonize", "restore_done", "restore_error"}) =>
          \A i \in 1..rpos :
              ~depythonize_statement(tree[i]).ok => (pc = "restore_error" /\ rpos = i)

C11_Witness ==
    /\ pc = "restore_error"
    /\ rpos = 2
    /\ depythonize_statement(tree[1]).ok
    /\ statements # <<>>
    /\ restored.status = "err"
    /\ restored.value = <<>>

-----------------------------------------------------------------------------
(* convert_python_to_rust_backrefs and the hook's operands: the claims *)

\* position i of t holds a backslash immediately followed by an ASCII digit
BackrefAt(t, i) == t[i] = Backslash /\ i + 1 <= Len(t) /\ is_ascii_digit(t[i + 1])

\* C12: the translation keeps the number of characters; a backslash followed by
\* a digit becomes '$' and the digit stays; a backslash followed by another
\* character, a last backslash and every other character are copied in place.
C12_RewritesExactlyBackrefs ==
    pc = "converted" =>
        /\ Len(converted) = Len(template)
        /\ \A i \in 1..Len(template) :
              /\ BackrefAt(template, i) => (converted[i] = Dollar /\ converted[i + 1] = template[i + 1])
              /\ (template[i] = Backslash /\ ~BackrefAt(template, i)) => converted[i] = Backslash
              /\ template[i] # Backslash => converted[i] = template[i]
              /\ converted[i] # template[i] => BackrefAt(template, i)

C12_Witness ==
    /\ pc = "converted"
    /\ template = <<Backslash, 49, Backslash, 120>>
    /\ converted = <<Dollar, 49, Backslash, 120>>

\* the expression a token sequence parses to as a whole
WholeExpr(toks) == parse_expr("OpteryxDialect", toks)

\* C13: the node the hook builds has the expression passed in as its left
\* operand and, as its right operand, everything that follows the operator,
\* parsed as one expression from the lowest precedence: no infix operator is
\* left behind it, and the precedence passed in changes nothing.  DIV a + a
\* gives left DIV (a + a), DIV a DIV a gives left DIV (a DIV a).
C13_RightOperandAbsorbsRest ==
    (pc = "parse_infix" /\ parsed.kind = "Some") =>
        /\ parsed.res.st = "ok"
        /\ parsed.res.expr[2] = left
        /\ parsed.res.expr[4] = WholeExpr(OperandTokens(sql)).expr
        /\ get_next_precedence(parsed.res.rest) = 0
        /\ \A p \in PrecedencePool : parse_infix(sql, left, p) = parsed
        /\ sql = <<"DIV", "a", "+", "a">> =>
              parsed.res.expr = BinaryOp(left, "MyIntegerDivide",
                                         BinaryOp(Identifier("a"), "Plus", Identifier("a")))
        /\ sql = <<"DIV", "a", "DIV", "a">> =>
              parsed.res.expr = BinaryOp(left, "MyIntegerDivide",
                                         BinaryOp(Identifier("a"), "MyIntegerDivide", Identifier("a")))

C13_Witness ==
    /\ pc = "parse_infix"
    /\ precedence = 40
    /\ sql = <<"DIV", "a", "+", "a">>
    /\ parsed.kind = "Some"
    /\ parsed.res.expr[4] = BinaryOp(Identifier("a"), "Plus", Identifier("a"))
    /\ parsed.res.rest = <<>>

\* C14: translating a translated template changes nothing: the output of one
\* translation holds no backslash immediately followed by an ASCII digit.
C14_TranslationIdempotent ==
    pc = "converted" =>
        /\ convert_python_to_rust_backrefs(converted) = converted
        /\ \A i \in 1..Len(converted) : ~BackrefAt(converted, i)

C14_Witness ==
    /\ pc = "converted"
    /\ template = <<Backslash, Backslash, 49>>
    /\ converted = <<Backslash, Dollar, 49>>

====
